---- MODULE Spec2Model ----
(***************************************************************************)
(* Model of latinime::ProximityInfo (native/jni/src/proximity_info.cpp):   *)
(* the keyboard proximity grid, the point-to-key distance and the          *)
(* resolution of a touch point into the candidate code list.               *)
(*                                                                         *)
(* C arrays are functions over 0 .. n-1.  A call is one action: the whole  *)
(* body of the method runs, and its arguments, its result and the buffer   *)
(* it wrote are left in the state for the properties to inspect.           *)
(***************************************************************************)
EXTENDS Integers, Sequences, FiniteSets, TLC

----------------------------------------------------------------------------
(* Values of defines.h, which is not part of the sources at hand.          *)

NOT_A_CODE == -1
NOT_AN_INDEX == -1
KEYCODE_SPACE == 32
ADDITIONAL_PROXIMITY_CHAR_DELIMITER_CODE == 2
MAX_CHAR_CODE == 127
MAX_KEY_COUNT_IN_A_KEYBOARD == 64

(* What the caller's buffer holds where the callee has not written.        *)
UNWRITTEN == -7

----------------------------------------------------------------------------
(* Bounds of the model.                                                    *)

MaxProx == 5            \* MAX_PROXIMITY_CHARS_SIZE ranges over 1 .. MaxProx
MaxGridWidth == 2       \* GRID_WIDTH ranges over 1 .. MaxGridWidth
MaxGridHeight == 2      \* GRID_HEIGHT ranges over 1 .. MaxGridHeight
MaxGridLen == 4         \* codes in a grid of more than one cell
MaxCommonKeyWidth == 2  \* mostCommonKeyWidth ranges over 0 .. MaxCommonKeyWidth
MaxKeyboardWidth == 4   \* keyboardWidth of the modelled keyboards
MaxKeyboardHeight == 2  \* keyboardHeight of the modelled keyboards
MaxKeyOrigin == 2       \* a key's left/top ranges over 0 .. MaxKeyOrigin
MaxKeyExtent == 2       \* a key's width/height ranges over 0 .. MaxKeyExtent

(* Codes a grid cell may hold: one below the space code, the space code    *)
(* (no key of its own in the modelled keyboards) and an upper-case letter  *)
(* whose key is found through case folding.                                *)
GridCodes == {31, 32, 65}
(* Primary codes: a letter of the grid and a letter absent from it.        *)
PrimaryCodes == {65, 98}
Locales == {"", "en"}

----------------------------------------------------------------------------
(* Integer arithmetic of C: division truncates toward zero.                *)

CDiv(a, b) ==
    IF a >= 0 THEN a \div b ELSE -((-a) \div b)

Min(a, b) == IF a < b THEN a ELSE b

----------------------------------------------------------------------------
(* Collaborators that live outside proximity_info.cpp.                     *)

(* char_utils: case folding of a character code.                           *)
toBaseLowerCase(c) ==
    IF c >= 65 /\ c <= 90 THEN c + 32 ELSE c

(* AdditionalProximityChars: the per-locale table of extra confusable      *)
(* codes of a primary code.  The modelled table repeats an entry, lists    *)
(* the primary code itself and lists codes the grid may hold.              *)
getAdditionalChars(localeStr, primaryKey) ==
    IF localeStr # "en" THEN << >>
    ELSE IF primaryKey = 98 THEN <<101, 101>>
    ELSE IF primaryKey = 65 THEN <<65, 32>>
    ELSE << >>

getAdditionalCharsSize(localeStr, primaryKey) ==
    Len(getAdditionalChars(localeStr, primaryKey))

----------------------------------------------------------------------------
(* ProximityInfo: construction.                                            *)

initializeCodeToKeyIndex(keyCount, keyCharCodes) ==
    [code \in 0 .. MAX_CHAR_CODE |->
        LET hits == {i \in 0 .. keyCount - 1 : keyCharCodes[i] = code}
        IN  IF hits = {} THEN -1
            ELSE CHOOSE i \in hits : \A j \in hits : j <= i]

ProximityInfo(localeStr, maxProximityCharsSize, keyboardWidth, keyboardHeight, gridWidth, gridHeight, mostCommonKeyWidth, proximityCharsArray, keyCount, keyXCoordinates, keyYCoordinates, keyWidths, keyHeights, keyCharCodes) ==
    [MAX_PROXIMITY_CHARS_SIZE |-> maxProximityCharsSize,
     KEYBOARD_WIDTH |-> keyboardWidth,
     KEYBOARD_HEIGHT |-> keyboardHeight,
     GRID_WIDTH |-> gridWidth,
     GRID_HEIGHT |-> gridHeight,
     MOST_COMMON_KEY_WIDTH_SQUARE |-> mostCommonKeyWidth * mostCommonKeyWidth,
     CELL_WIDTH |-> (keyboardWidth + gridWidth - 1) \div gridWidth,
     CELL_HEIGHT |-> (keyboardHeight + gridHeight - 1) \div gridHeight,
     KEY_COUNT |-> Min(keyCount, MAX_KEY_COUNT_IN_A_KEYBOARD),
     mLocaleStr |-> localeStr,
     mProximityCharsArray |-> proximityCharsArray,
     mKeyXCoordinates |-> keyXCoordinates,
     mKeyYCoordinates |-> keyYCoordinates,
     mKeyWidths |-> keyWidths,
     mKeyHeights |-> keyHeights,
     mKeyCharCodes |-> keyCharCodes]

(* mCodeToKeyIndex is filled once, by the constructor, from KEY_COUNT and  *)
(* mKeyCharCodes, and never written again.                                 *)
mCodeToKeyIndex(pi) ==
    initializeCodeToKeyIndex(pi.KEY_COUNT, pi.mKeyCharCodes)

----------------------------------------------------------------------------
(* ProximityInfo: queries.                                                 *)

(* Faulty variant: the row is not scaled by the width of the grid.         *)
getStartIndexFromCoordinates_NoRowStride(pi, x, y) ==
    (CDiv(y, pi.CELL_HEIGHT) + CDiv(x, pi.CELL_WIDTH))
        * pi.MAX_PROXIMITY_CHARS_SIZE

getStartIndexFromCoordinates(pi, x, y) ==
    (CDiv(y, pi.CELL_HEIGHT) * pi.GRID_WIDTH + CDiv(x, pi.CELL_WIDTH))
        * pi.MAX_PROXIMITY_CHARS_SIZE

getKeyIndex(pi, c) ==
    IF pi.KEY_COUNT = 0 THEN NOT_AN_INDEX
    ELSE IF toBaseLowerCase(c) > MAX_CHAR_CODE THEN NOT_AN_INDEX
    ELSE mCodeToKeyIndex(pi)[toBaseLowerCase(c)]

(* proximity_info.h: the touch point lies within the key's rectangle; a    *)
(* key that is not found counts as touched.                                *)
isOnKey(pi, keyId, x, y) ==
    IF keyId < 0 THEN TRUE
    ELSE /\ x >= pi.mKeyXCoordinates[keyId]
         /\ x <= pi.mKeyXCoordinates[keyId] + pi.mKeyWidths[keyId]
         /\ y >= pi.mKeyYCoordinates[keyId]
         /\ y <= pi.mKeyYCoordinates[keyId] + pi.mKeyHeights[keyId]

(* Faulty variant: a point inside the rectangle on one axis is at          *)
(* distance 0.                                                             *)
squaredDistanceToEdge_EitherAxis(pi, keyId, x, y) ==
    IF keyId < 0 THEN 1
    ELSE
        LET left == pi.mKeyXCoordinates[keyId]
            top == pi.mKeyYCoordinates[keyId]
            right == left + pi.mKeyWidths[keyId]
            bottom == top + pi.mKeyHeights[keyId]
            edgeX == IF x < left THEN left ELSE (IF x > right THEN right ELSE x)
            edgeY == IF y < top THEN top ELSE (IF y > bottom THEN bottom ELSE y)
            dx == x - edgeX
            dy == y - edgeY
        IN  IF dx = 0 \/ dy = 0 THEN 0 ELSE dx * dx + dy * dy

squaredDistanceToEdge(pi, keyId, x, y) ==
    IF keyId < 0 THEN 1       \* "return true" from a function returning int
    ELSE
        LET left == pi.mKeyXCoordinates[keyId]
            top == pi.mKeyYCoordinates[keyId]
            right == left + pi.mKeyWidths[keyId]
            bottom == top + pi.mKeyHeights[keyId]
            edgeX == IF x < left THEN left ELSE (IF x > right THEN right ELSE x)
            edgeY == IF y < top THEN top ELSE (IF y > bottom THEN bottom ELSE y)
            dx == x - edgeX
            dy == y - edgeY
        IN  dx * dx + dy * dy

----------------------------------------------------------------------------
(* hasSpaceProximity.  The result carries, next to the returned value, the *)
(* set of indices of mProximityCharsArray the call has read.               *)

RECURSIVE spaceLoop(_, _, _, _)
spaceLoop(pi, startIndex, i, reads) ==
    IF i >= pi.MAX_PROXIMITY_CHARS_SIZE
    THEN [ret |-> FALSE, reads |-> reads]
    ELSE IF pi.mProximityCharsArray[startIndex + i] = KEYCODE_SPACE
         THEN [ret |-> TRUE, reads |-> reads \cup {startIndex + i}]
         ELSE spaceLoop(pi, startIndex, i + 1, reads \cup {startIndex + i})

hasSpaceProximity(pi, x, y) ==
    IF x < 0 \/ y < 0
    THEN [ret |-> FALSE, reads |-> {}]
    ELSE spaceLoop(pi, getStartIndexFromCoordinates(pi, x, y), 0, {})

----------------------------------------------------------------------------
(* calculateNearbyKeyCodes.  The local state of a call is the buffer       *)
(* inputCodes (the MAX_PROXIMITY_CHARS_SIZE slots of this touch point and  *)
(* the slot behind them), insertPos, which statement wrote each slot, and  *)
(* whether the call left through one of its early returns.                 *)

NewCall(pi) ==
    [inputCodes |-> [i \in 0 .. pi.MAX_PROXIMITY_CHARS_SIZE |-> UNWRITTEN],
     origin |-> [i \in 0 .. pi.MAX_PROXIMITY_CHARS_SIZE |-> "none"],
     insertPos |-> 0,
     returned |-> FALSE]

(* inputCodes[insertPos++] = c                                             *)
store(s, c, by) ==
    [s EXCEPT !.inputCodes[s.insertPos] = c,
              !.origin[s.insertPos] = by,
              !.insertPos = s.insertPos + 1]

(* if (insertPos >= MAX_PROXIMITY_CHARS_SIZE) return;                      *)
returnIfFull(pi, s) ==
    IF s.insertPos >= pi.MAX_PROXIMITY_CHARS_SIZE
    THEN [s EXCEPT !.returned = TRUE]
    ELSE s

(* Faulty variant: the primary code is not skipped.                        *)
skipGridCode_ReservedOnly(c, primaryKey) ==
    c < KEYCODE_SPACE

skipGridCode(c, primaryKey) ==
    c < KEYCODE_SPACE \/ c = primaryKey

(* Faulty variant: both tests must pass.                                   *)
admitGridCode_BothTests(pi, c, x, y) ==
    LET keyIndex == getKeyIndex(pi, c)
        onKey == isOnKey(pi, keyIndex, x, y)
        distance == squaredDistanceToEdge(pi, keyIndex, x, y)
    IN  onKey /\ distance < pi.MOST_COMMON_KEY_WIDTH_SQUARE

admitGridCode(pi, c, x, y) ==
    LET keyIndex == getKeyIndex(pi, c)
        onKey == isOnKey(pi, keyIndex, x, y)
        distance == squaredDistanceToEdge(pi, keyIndex, x, y)
    IN  onKey \/ distance < pi.MOST_COMMON_KEY_WIDTH_SQUARE

RECURSIVE gridLoop(_, _, _, _, _, _, _)
gridLoop(pi, x, y, primaryKey, startIndex, i, s) ==
    IF i >= pi.MAX_PROXIMITY_CHARS_SIZE THEN s
    ELSE
        LET c == pi.mProximityCharsArray[startIndex + i]
        IN  IF skipGridCode(c, primaryKey)
            THEN gridLoop(pi, x, y, primaryKey, startIndex, i + 1, s)
            ELSE IF admitGridCode(pi, c, x, y)
            THEN LET t == returnIfFull(pi, store(s, c, "grid"))
                 IN  IF t.returned THEN t
                     ELSE gridLoop(pi, x, y, primaryKey, startIndex, i + 1, t)
            ELSE gridLoop(pi, x, y, primaryKey, startIndex, i + 1, s)

(* Faulty variant: the scan starts behind the primary code.                *)
alreadyListed_SkipsPrimary(s, ac) ==
    \E k \in 1 .. s.insertPos - 1 : s.inputCodes[k] = ac

(* for (k = 0; k < insertPos; ++k) if (ac == inputCodes[k]) break;         *)
(* if (k < insertPos) continue;                                            *)
alreadyListed(s, ac) ==
    \E k \in 0 .. s.insertPos - 1 : s.inputCodes[k] = ac

RECURSIVE additionalLoop(_, _, _, _)
additionalLoop(pi, additionalProximityChars, j, s) ==
    IF j >= Len(additionalProximityChars) THEN s
    ELSE
        LET ac == additionalProximityChars[j + 1]
        IN  IF alreadyListed(s, ac)
            THEN additionalLoop(pi, additionalProximityChars, j + 1, s)
            ELSE LET t == returnIfFull(pi, store(s, ac, "additional"))
                 IN  IF t.returned THEN t
                     ELSE additionalLoop(pi, additionalProximityChars, j + 1, t)

(* Faulty variant: the delimiter is appended whatever the table holds.     *)
additionalPart_AlwaysDelimiter(pi, primaryKey, s) ==
    LET t == returnIfFull(pi,
                 store(s, ADDITIONAL_PROXIMITY_CHAR_DELIMITER_CODE,
                       "delimiter"))
    IN  IF t.returned THEN t
        ELSE additionalLoop(pi,
                 getAdditionalChars(pi.mLocaleStr, primaryKey), 0, t)

additionalPart(pi, primaryKey, s) ==
    IF getAdditionalCharsSize(pi.mLocaleStr, primaryKey) > 0
    THEN LET t == returnIfFull(pi,
                      store(s, ADDITIONAL_PROXIMITY_CHAR_DELIMITER_CODE,
                            "delimiter"))
         IN  IF t.returned THEN t
             ELSE additionalLoop(pi,
                      getAdditionalChars(pi.mLocaleStr, primaryKey), 0, t)
    ELSE s

(* Faulty variant: the fill starts at index 0.                             *)
fillNotACode_FromStart(pi, s) ==
    [s EXCEPT
        !.inputCodes = [i \in DOMAIN s.inputCodes |->
            IF i < pi.MAX_PROXIMITY_CHARS_SIZE
            THEN NOT_A_CODE ELSE s.inputCodes[i]],
        !.origin = [i \in DOMAIN s.origin |->
            IF i < pi.MAX_PROXIMITY_CHARS_SIZE
            THEN "padding" ELSE s.origin[i]]]

(* for (i = insertPos; i < MAX_PROXIMITY_CHARS_SIZE; ++i)                  *)
(*     inputCodes[i] = NOT_A_CODE;                                         *)
fillNotACode(pi, s) ==
    [s EXCEPT
        !.inputCodes = [i \in DOMAIN s.inputCodes |->
            IF i >= s.insertPos /\ i < pi.MAX_PROXIMITY_CHARS_SIZE
            THEN NOT_A_CODE ELSE s.inputCodes[i]],
        !.origin = [i \in DOMAIN s.origin |->
            IF i >= s.insertPos /\ i < pi.MAX_PROXIMITY_CHARS_SIZE
            THEN "padding" ELSE s.origin[i]]]

calculateNearbyKeyCodes(pi, x, y, primaryKey) ==
    LET s0 == store(NewCall(pi), primaryKey, "primary")
        startIndex == getStartIndexFromCoordinates(pi, x, y)
    IN  IF startIndex >= 0
        THEN LET s1 == gridLoop(pi, x, y, primaryKey, startIndex, 0, s0)
             IN  IF s1.returned THEN s1
                 ELSE LET s2 == additionalPart(pi, primaryKey, s1)
                      IN  IF s2.returned THEN s2 ELSE fillNotACode(pi, s2)
        ELSE fillNotACode(pi, s0)

----------------------------------------------------------------------------
(* State: the keyboard, and the last call with its arguments and results.  *)

VARIABLES
    info,        \* the ProximityInfo object
    op,          \* the method called last ("new" after construction)
    argX, argY,  \* the point passed to it
    argCode,     \* primaryKey of calculateNearbyKeyCodes, keyId of
                 \* squaredDistanceToEdge
    call,        \* state of the last calculateNearbyKeyCodes at its return
    distance,    \* value returned by the last squaredDistanceToEdge
    space        \* result of the last hasSpaceProximity: value, grid reads

vars == <<info, op, argX, argY, argCode, call, distance, space>>

(* The keys of the keyboards with a grid: one key, the letter 'a'.         *)
OneKey(left, top, width, height) ==
    [keyCount |-> 1,
     xs |-> [i \in {0} |-> left], ys |-> [i \in {0} |-> top],
     widths |-> [i \in {0} |-> width], heights |-> [i \in {0} |-> height],
     codes |-> [i \in {0} |-> 97]]

NoKeys ==
    [keyCount |-> 0,
     xs |-> << >>, ys |-> << >>, widths |-> << >>, heights |-> << >>,
     codes |-> << >>]

Keyboards(locales, commonWidths, gridLen, codes, keys) ==
    UNION { UNION { UNION {
        { ProximityInfo(l, m, MaxKeyboardWidth, MaxKeyboardHeight, gw, gh, w,
                        arr, k.keyCount, k.xs, k.ys, k.widths, k.heights,
                        k.codes) :
            l \in locales, w \in commonWidths, k \in keys,
            arr \in [0 .. gw * gh * m - 1 -> codes] } :
        m \in {n \in 1 .. MaxProx : gw * gh = 1 \/ gw * gh * n <= gridLen} } :
        gw \in 1 .. MaxGridWidth } : gh \in 1 .. MaxGridHeight }

NoCall ==
    /\ op = "new"
    /\ argX = 0 /\ argY = 0 /\ argCode = 0
    /\ call = NewCall(info)
    /\ distance = 0
    /\ space = [ret |-> FALSE, reads |-> {}]

(* Touch points: every point of the keyboard, and points left of and above *)
(* it by less than a cell and by a whole cell.                             *)
TouchXs == {-info.CELL_WIDTH, -1} \cup (0 .. info.KEYBOARD_WIDTH - 1)
TouchYs == {-info.CELL_HEIGHT, -1} \cup (0 .. info.KEYBOARD_HEIGHT - 1)

(* The methods are const and every call starts on a fresh buffer: the      *)
(* caller makes a call, uses what it returned and discards it.             *)
CalculateNearbyKeyCodes(x, y, primaryKey) ==
    /\ op = "new"
    /\ op' = "calculateNearbyKeyCodes"
    /\ argX' = x /\ argY' = y /\ argCode' = primaryKey
    /\ call' = calculateNearbyKeyCodes(info, x, y, primaryKey)
    /\ UNCHANGED <<info, distance, space>>

HasSpaceProximity(x, y) ==
    /\ op = "new"
    /\ op' = "hasSpaceProximity"
    /\ argX' = x /\ argY' = y
    /\ space' = hasSpaceProximity(info, x, y)
    /\ UNCHANGED <<info, argCode, call, distance>>

SquaredDistanceToEdge(keyId, x, y) ==
    /\ op = "new"
    /\ op' = "squaredDistanceToEdge"
    /\ argX' = x /\ argY' = y /\ argCode' = keyId
    /\ distance' = squaredDistanceToEdge(info, keyId, x, y)
    /\ UNCHANGED <<info, call, space>>

Discard ==
    /\ op # "new"
    /\ op' = "new"
    /\ argX' = 0 /\ argY' = 0 /\ argCode' = 0
    /\ call' = NewCall(info)
    /\ distance' = 0
    /\ space' = [ret |-> FALSE, reads |-> {}]
    /\ UNCHANGED info

(* Resolution of touch points on keyboards with a proximity grid.          *)
Init ==
    /\ info \in Keyboards(Locales, 0 .. MaxCommonKeyWidth, MaxGridLen,
                          GridCodes, {OneKey(0, 0, 1, 1)})
    /\ NoCall

Next ==
    \/ \E x \in TouchXs, y \in TouchYs, primaryKey \in PrimaryCodes :
            CalculateNearbyKeyCodes(x, y, primaryKey)
    \/ Discard

Spec == Init /\ [][Next]_vars

(* Space lookups on keyboards with larger grids.                           *)
InitSpace ==
    /\ info \in Keyboards({""}, {0}, MaxGridLen + 2, {KEYCODE_SPACE, 65},
                          {NoKeys})
    /\ NoCall

NextSpace ==
    \/ \E x \in TouchXs, y \in TouchYs : HasSpaceProximity(x, y)
    \/ Discard

SpecSpace == InitSpace /\ [][NextSpace]_vars

(* Distances on keyboards whose one key varies in place and size.          *)
InitDist ==
    /\ info \in Keyboards({""}, 0 .. MaxCommonKeyWidth, 1, {31},
            {OneKey(l, t, w, h) : l \in 0 .. MaxKeyOrigin, t \in 0 .. 1,
                                  w \in 0 .. MaxKeyExtent, h \in 0 .. 1}
            \cup {NoKeys})
    /\ NoCall

NextDist ==
    \/ \E keyId \in -2 .. info.KEY_COUNT - 1 :
          \E x \in -1 .. MaxKeyOrigin + MaxKeyExtent + 1, y \in -1 .. 3 :
            SquaredDistanceToEdge(keyId, x, y)
    \/ Discard

SpecDist == InitDist /\ [][NextDist]_vars

----------------------------------------------------------------------------
(* Properties.                                                             *)

MAXP == info.MAX_PROXIMITY_CHARS_SIZE
IsCalc == op = "calculateNearbyKeyCodes"
IsSpace == op = "hasSpaceProximity"
IsDist == op = "squaredDistanceToEdge"
ValidPoint == argX >= 0 /\ argY >= 0
Slots(by) == {i \in DOMAIN call.origin : call.origin[i] = by}
Abs(n) == IF n < 0 THEN -n ELSE n

(* The cell of the grid under a point of the keyboard, as a sequence.      *)
TouchedCell ==
    [i \in 1 .. MAXP |->
        info.mProximityCharsArray[
            ((argY \div info.CELL_HEIGHT) * info.GRID_WIDTH
                + (argX \div info.CELL_WIDTH)) * MAXP + (i - 1)]]

(* C1: calculateNearbyKeyCodes writes only to indices                      *)
(* 0 .. MAX_PROXIMITY_CHARS_SIZE-1 of the candidate list, and every index  *)
(* from the number of inserted codes up to MAX_PROXIMITY_CHARS_SIZE-1      *)
(* holds NOT_A_CODE.                                                       *)
C1_WritesStayInList ==
    IsCalc =>
        /\ \A i \in DOMAIN call.origin :
              call.origin[i] # "none" => i <= MAXP - 1
        /\ \A i \in 0 .. MAXP - 1 :
              i >= call.insertPos => call.inputCodes[i] = NOT_A_CODE

(* C2: for a touch point with x < 0 or y < 0 no code of a grid cell is     *)
(* admitted: the list is the primary code followed by NOT_A_CODE only.     *)
C2_NegativePointAdmitsNothing ==
    (IsCalc /\ ~ValidPoint) =>
        /\ call.inputCodes[0] = argCode
        /\ \A i \in 1 .. MAXP - 1 : call.inputCodes[i] = NOT_A_CODE

(* C3: for a negative key id squaredDistanceToEdge returns a value below   *)
(* the admission threshold MOST_COMMON_KEY_WIDTH_SQUARE.                   *)
C3_UnknownKeyPassesDistanceTest ==
    (IsDist /\ argCode < 0) =>
        distance < info.MOST_COMMON_KEY_WIDTH_SQUARE

(* C4: for a key id >= 0 squaredDistanceToEdge returns dx*dx + dy*dy,      *)
(* where dx is 0 for left <= x <= left+width and the distance to the       *)
(* nearer vertical edge otherwise, and dy likewise; the result is 0        *)
(* exactly for the points inside the rectangle on both axes.               *)
C4_ClampedDistance ==
    (IsDist /\ argCode >= 0) =>
        LET left == info.mKeyXCoordinates[argCode]
            top == info.mKeyYCoordinates[argCode]
            right == left + info.mKeyWidths[argCode]
            bottom == top + info.mKeyHeights[argCode]
            insideX == left <= argX /\ argX <= right
            insideY == top <= argY /\ argY <= bottom
            dx == IF insideX THEN 0
                  ELSE Min(Abs(argX - left), Abs(argX - right))
            dy == IF insideY THEN 0
                  ELSE Min(Abs(argY - top), Abs(argY - bottom))
        IN  /\ distance = dx * dx + dy * dy
            /\ (distance = 0) <=> (insideX /\ insideY)

(* A point right of the key and inside it vertically, and a point off the  *)
(* key on both axes, are both covered by the distance states.              *)
C4_Witness ==
    /\ IsDist /\ argCode >= 0
    /\ argX > info.mKeyXCoordinates[argCode] + info.mKeyWidths[argCode] + 1
    /\ argY < info.mKeyYCoordinates[argCode]
    /\ distance >= 5

(* C5: hasSpaceProximity returns true iff x >= 0, y >= 0 and one of the    *)
(* MAX_PROXIMITY_CHARS_SIZE entries of the cell at                         *)
(* (y / CELL_HEIGHT) * GRID_WIDTH + (x / CELL_WIDTH) is the space code;    *)
(* for a negative coordinate it reads nothing of the grid; and a call      *)
(* leaves the object and the candidate list as they were.                  *)
C5_SpaceIff ==
    IsSpace =>
        /\ space.ret <=>
              (ValidPoint /\ \E i \in 1 .. MAXP : TouchedCell[i] = KEYCODE_SPACE)
        /\ ~ValidPoint => space.reads = {}

C5_HasSpaceProximity ==
    /\ []C5_SpaceIff
    /\ [][op' = "hasSpaceProximity" => (info' = info /\ call' = call)]_vars

C5_Witness ==
    /\ IsSpace /\ space.ret
    /\ argY >= info.CELL_HEIGHT
    /\ Cardinality(space.reads) >= 2

(* C6: for a touch point with non-negative coordinates index 0 of the      *)
(* candidate list holds the primary code, whether the call completed or    *)
(* returned early.                                                         *)
C6_PrimaryFirst ==
    (IsCalc /\ ValidPoint) => call.inputCodes[0] = argCode

C6_Witness ==
    /\ IsCalc /\ ValidPoint /\ ~call.returned
    /\ Slots("grid") # {} /\ Slots("padding") # {}
    /\ call.inputCodes[0] = argCode

(* C7: an additional-proximity character is in the list only where no      *)
(* earlier entry (primary, grid code, delimiter or earlier additional      *)
(* character) equals it.                                                   *)
C7_AdditionalNotDuplicated ==
    IsCalc =>
        \A i \in Slots("additional") :
            \A k \in 0 .. i - 1 : call.inputCodes[k] # call.inputCodes[i]

(* The table lists more characters than were appended, although the call   *)
(* ran to its end: some were dropped as duplicates.                        *)
C7_Witness ==
    /\ IsCalc /\ ~call.returned
    /\ Slots("additional") # {}
    /\ Cardinality(Slots("additional"))
          < getAdditionalCharsSize(info.mLocaleStr, argCode)

(* C8 as claimed: no code other than NOT_A_CODE occurs at two indices of   *)
(* the candidate list, whatever the grid cell holds.                       *)
C8_NoDuplicates ==
    IsCalc =>
        \A i, j \in 0 .. MAXP - 1 :
            (i < j /\ call.inputCodes[i] = call.inputCodes[j])
                => call.inputCodes[i] = NOT_A_CODE

(* The cell that calculateNearbyKeyCodes reads lists no character code     *)
(* twice.                                                                  *)
ReadCellRepeatFree ==
    LET startIndex == getStartIndexFromCoordinates(info, argX, argY)
    IN  startIndex >= 0 =>
            \A i, j \in 0 .. MAXP - 1 :
                (i < j /\ info.mProximityCharsArray[startIndex + i]
                            = info.mProximityCharsArray[startIndex + j])
                    => info.mProximityCharsArray[startIndex + i] < KEYCODE_SPACE

(* C8 amended: when the cell read lists no character code twice (and the   *)
(* primary code is not the delimiter code), no code other than NOT_A_CODE  *)
(* occurs at two indices of the candidate list.                            *)
C8_NoDuplicateCharacters ==
    (/\ IsCalc
     /\ ReadCellRepeatFree
     /\ argCode # ADDITIONAL_PROXIMITY_CHAR_DELIMITER_CODE) =>
        \A i, j \in 0 .. MAXP - 1 :
            (i < j /\ call.inputCodes[i] = call.inputCodes[j])
                => call.inputCodes[i] = NOT_A_CODE

C8_Witness ==
    /\ IsCalc /\ ValidPoint /\ ReadCellRepeatFree
    /\ Cardinality(Slots("grid")) >= 2
    /\ Slots("additional") # {}

(* The entries of the touched cell that the resolver is to admit.          *)
Admissible(c) ==
    /\ ~(c < KEYCODE_SPACE)
    /\ c # argCode
    /\ \/ isOnKey(info, getKeyIndex(info, c), argX, argY)
       \/ squaredDistanceToEdge(info, getKeyIndex(info, c), argX, argY)
              < info.MOST_COMMON_KEY_WIDTH_SQUARE

ExpectedGridCodes == SelectSeq(TouchedCell, Admissible)

(* C9: without truncation the entries right behind the primary code are    *)
(* exactly the entries of the touched cell, in cell order, that are not    *)
(* below the space code, differ from the primary code and pass the on-key  *)
(* test or the distance test.                                              *)
C9_GridSegment ==
    (IsCalc /\ ValidPoint /\ ~call.returned) =>
        /\ \A i \in 1 .. Len(ExpectedGridCodes) :
              /\ call.inputCodes[i] = ExpectedGridCodes[i]
              /\ call.origin[i] = "grid"
        /\ Slots("grid") = 1 .. Len(ExpectedGridCodes)

(* The cell holds a code that fails both tests in front of one that is     *)
(* admitted.                                                               *)
C9_Witness ==
    /\ IsCalc /\ ValidPoint /\ ~call.returned
    /\ Slots("grid") # {}
    /\ \E i, j \in 1 .. MAXP :
          /\ i < j
          /\ TouchedCell[i] >= KEYCODE_SPACE /\ TouchedCell[i] # argCode
          /\ ~Admissible(TouchedCell[i])
          /\ Admissible(TouchedCell[j])

(* C10 as claimed: without truncation the delimiter code sits directly     *)
(* behind the last grid-derived code.                                      *)
C10_DelimiterAlways ==
    (IsCalc /\ ValidPoint /\ ~call.returned) =>
        /\ Cardinality(Slots("delimiter")) = 1
        /\ call.inputCodes[Cardinality(Slots("grid")) + 1]
              = ADDITIONAL_PROXIMITY_CHAR_DELIMITER_CODE

(* C10 amended: without truncation the list is the primary code, the       *)
(* grid-derived codes, then - only when the table has an entry for the     *)
(* primary code - one delimiter and the additional codes, then NOT_A_CODE  *)
(* up to the width; with no entry in the table there is no delimiter.      *)
C10_Layout ==
    (IsCalc /\ ValidPoint /\ ~call.returned) =>
        LET g == Cardinality(Slots("grid"))
            a == Cardinality(Slots("additional"))
            n == getAdditionalCharsSize(info.mLocaleStr, argCode)
            d == IF n > 0 THEN 1 ELSE 0
        IN  /\ call.inputCodes[0] = argCode
            /\ Slots("primary") = {0}
            /\ Slots("grid") = 1 .. g
            /\ Slots("delimiter") = g + 1 .. g + d
            /\ \A i \in Slots("delimiter") :
                  call.inputCodes[i] = ADDITIONAL_PROXIMITY_CHAR_DELIMITER_CODE
            /\ Slots("additional") = g + d + 1 .. g + d + a
            /\ n = 0 => a = 0
            /\ Slots("padding") = g + d + a + 1 .. MAXP - 1
            /\ \A i \in Slots("padding") : call.inputCodes[i] = NOT_A_CODE
            /\ Slots("none") = {MAXP}

C10_Witness ==
    /\ IsCalc /\ ValidPoint /\ ~call.returned
    /\ Slots("grid") # {}
    /\ Slots("delimiter") # {}
    /\ Slots("additional") # {}
    /\ Slots("padding") # {}

====
